---- MODULE Spec2Model ----
(***************************************************************************)
(* The test runner of autofeedback-s (src/src/runner.ts): runAll walks a   *)
(* list of tests; for each test it spawns the optional setup command and   *)
(* the run command, waits for the child with a timeout (waitForExit),      *)
(* compares the captured output with the expected output and keeps the     *)
(* tally of passed tests and points.                                       *)
(*                                                                         *)
(* Text is a sequence of one-character strings.  A command is a name whose *)
(* behaviour (what the shell would do with it) is given by Behaviour.      *)
(* Node runs one callback at a time: an action is one callback together    *)
(* with the promise continuations it releases, up to the next await.       *)
(*                                                                         *)
(* fuzzySearch (src/src/fuzzySearch.ts), which the runner uses to point at *)
(* the closest match of an expected text, is a pure function: FuzzySpec    *)
(* calls it on a set of inputs, one step of its fold at a time, and goes   *)
(* on with what includedDiffMessage does with the result.  DiffSpec does   *)
(* the exact comparison of an output with an expected text and calls       *)
(* exactDiffMessage when they differ.                                      *)
(***************************************************************************)
EXTENDS Integers, Sequences, FiniteSets, TLC

VARIABLES
    tests,            \* the Array<Test> given to runAll
    pc,               \* where runAll is: "loop", "setup", "run", "summary", "points", "done"
    idx,              \* index of the test of the current loop iteration (0 before the first)
    clock,            \* milliseconds since `start` (process.hrtime) of the current run()
    calls,            \* one record per waitForExit call made so far, in call order
    timeout,          \* run(): the local `timeout` of the current test, in ms
    points, availablePoints, passed, numtests, hasPoints, failed, passing, failing,
    token,            \* the uuid of the current loop iteration
    log,              \* lines written by log()
    summary,          \* core.summary buffer: addRaw / addCodeBlock entries
    outputs,          \* core.setOutput / setCheckRunOutput calls
    caught,           \* the `error` of every entry into the catch block of the loop
    failureSignalled, \* TRUE once the run has been marked failed for the caller
    fuzzy,            \* the locals of a call of fuzzySearch (fuzzySearch.ts)
    diff              \* the locals of a call of exactDiffMessage (runner.ts)

vars == <<tests, pc, idx, clock, calls, timeout, points, availablePoints, passed,
          numtests, hasPoints, failed, passing, failing, token, log, summary,
          outputs, caught, failureSignalled, fuzzy, diff>>

tally == <<points, availablePoints, passed, numtests, hasPoints, failed, passing, failing>>

----------------------------------------------------------------------------
(* Bounds of the model *)

MaxTests == 2          \* longest generated test list
MaxClock == 90000      \* the clock stops advancing here (ms)
TickSteps == {30000}   \* how far one Tick advances the clock (ms)
MaxMinutes == 2        \* longest timeout of a generated test (minutes)
MaxLen == 3            \* longest generated needle of fuzzySearch; haystacks are one longer

----------------------------------------------------------------------------
(* Text *)

CR == "\r"
LF == "\n"
Whitespace == {" ", "\t", "\n", "\r", "\f"}

RECURSIVE replaceCRLF(_)
(* text.replace(/\r\n/g, '\n') *)
replaceCRLF(text) ==
    IF Len(text) = 0 THEN <<>>
    ELSE IF Len(text) >= 2 /\ text[1] = CR /\ text[2] = LF
         THEN <<LF>> \o replaceCRLF(SubSeq(text, 3, Len(text)))
         ELSE <<text[1]>> \o replaceCRLF(Tail(text))

RECURSIVE trimStart(_)
trimStart(text) ==
    IF Len(text) > 0 /\ text[1] \in Whitespace THEN trimStart(Tail(text)) ELSE text

RECURSIVE trimEnd(_)
trimEnd(text) ==
    IF Len(text) > 0 /\ text[Len(text)] \in Whitespace
    THEN trimEnd(SubSeq(text, 1, Len(text) - 1)) ELSE text

(* String.prototype.trim *)
trim(text) == trimEnd(trimStart(text))

(* runner.ts normalizeLineEndings *)
normalizeLineEndings(text) == trim(replaceCRLF(text))

(* String.prototype.includes *)
includes(text, part) ==
    \E k \in 1..(Len(text) - Len(part) + 1) : SubSeq(text, k, k + Len(part) - 1) = part

RECURSIVE concat(_)
(* the chunks of a sequence of chunks appended one after the other *)
concat(chunks) ==
    IF chunks = <<>> THEN <<>> ELSE Head(chunks) \o concat(Tail(chunks))

----------------------------------------------------------------------------
(* Regular expressions: the part of the RegExp syntax the patterns of the  *)
(* model use.  An atom is a literal character, \d, ".", "^" or "$"; "+"    *)
(* after an atom repeats it one or more times.  A parenthesis opens a      *)
(* group; the patterns of the model never close one.                       *)

Digits == {"0", "1", "2", "3", "4", "5", "6", "7", "8", "9"}

RECURSIVE regexAtoms(_)
regexAtoms(p) ==
    IF p = <<>> THEN <<>>
    ELSE LET esc  == p[1] = "\\" /\ Len(p) >= 2
             kind == IF esc THEN (IF p[2] = "d" THEN "digit" ELSE "lit")
                     ELSE CASE p[1] = "^" -> "bol"
                            [] p[1] = "$" -> "eol"
                            [] p[1] = "." -> "any"
                            [] p[1] = "+" -> "nothing"
                            [] p[1] = "(" -> "open"
                            [] p[1] = ")" -> "close"
                            [] p[1] = "\\" -> "badescape"
                            [] OTHER -> "lit"
             ch   == IF esc THEN p[2] ELSE p[1]
             rest == SubSeq(p, IF esc THEN 3 ELSE 2, Len(p))
             plus == Len(rest) > 0 /\ rest[1] = "+" /\ kind \in {"lit", "digit", "any"}
         IN  <<[kind |-> kind, ch |-> ch, plus |-> plus]>>
             \o regexAtoms(IF plus THEN Tail(rest) ELSE rest)

(* new RegExp(p) throws a SyntaxError unless the pattern is well formed *)
regexValid(p) ==
    \A k \in DOMAIN regexAtoms(p) :
        regexAtoms(p)[k].kind \notin {"nothing", "open", "close", "badescape"}

atomMatches(a, c) ==
    CASE a.kind = "lit"   -> c = a.ch
      [] a.kind = "digit" -> c \in Digits
      [] a.kind = "any"   -> c \notin {CR, LF}
      [] OTHER            -> FALSE

RECURSIVE matchHere(_, _, _)
matchHere(atoms, s, pos) ==
    IF atoms = <<>> THEN TRUE
    ELSE LET a == Head(atoms) IN
         CASE a.kind = "bol" -> pos = 1 /\ matchHere(Tail(atoms), s, pos)
           [] a.kind = "eol" -> pos = Len(s) + 1 /\ matchHere(Tail(atoms), s, pos)
           [] OTHER ->
                IF a.plus
                THEN \E n \in 1..(Len(s) - pos + 1) :
                        /\ \A k \in pos..(pos + n - 1) : atomMatches(a, s[k])
                        /\ matchHere(Tail(atoms), s, pos + n)
                ELSE /\ pos <= Len(s)
                     /\ atomMatches(a, s[pos])
                     /\ matchHere(Tail(atoms), s, pos + 1)

(* s.match(new RegExp(p)) is not null, for a well-formed p *)
regexMatch(s, p) == \E pos \in 1..(Len(s) + 1) : matchHere(regexAtoms(p), s, pos)

----------------------------------------------------------------------------
(* The texts of the model *)

Hello      == <<"H", "e", "l", "l", "o">>
World      == <<"w", "o", "r", "l", "d">>
HelloWorld == Hello \o <<" ">> \o World
FortyTwo   == <<"4", "2">>
FortyTwoA  == <<"4", "2", "a">>
NumberPattern == <<"^", "\\", "d", "+", "$">>
BadPattern == <<"(", "4">>
NoText     == <<>>

----------------------------------------------------------------------------
(* Commands.  Behaviour(cmd) is what the child spawned for cmd does: the   *)
(* chunks it writes to stdout and to stderr, and how it ends: an exit with *)
(* a code, a death by signal, never (it hangs until killed), or a spawn    *)
(* failure reported by an 'error' event.                                   *)

NoSignal == "null"
NoCode   == -1

Beh(stdout, stderr, ending, code, signal) ==
    [stdout |-> stdout, stderr |-> stderr, ending |-> ending, code |-> code, signal |-> signal]

Behaviour(cmd) ==
    CASE cmd = "echo Hello world"         -> Beh(<<HelloWorld \o <<LF>>>>, <<>>, "exit", 0, NoSignal)
      [] cmd = "printf 'Hello\\r\\nworld'"-> Beh(<<Hello \o <<CR, LF>>, World>>, <<>>, "exit", 0, NoSignal)
      [] cmd = "echo Hello"               -> Beh(<<Hello \o <<LF>>>>, <<>>, "exit", 0, NoSignal)
      [] cmd = "echo 42"                  -> Beh(<<FortyTwo \o <<LF>>>>, <<>>, "exit", 0, NoSignal)
      [] cmd = "echo 42a"                 -> Beh(<<FortyTwoA \o <<LF>>>>, <<>>, "exit", 0, NoSignal)
      [] cmd = "echo regex"               -> Beh(<<<<"r", "e", "g", "e", "x", LF>>>>, <<>>, "exit", 0, NoSignal)
      [] cmd = "echo Hello >&2; echo world" -> Beh(<<World \o <<LF>>>>, <<Hello \o <<LF>>>>, "exit", 0, NoSignal)
      [] cmd = "true"                     -> Beh(<<>>, <<>>, "exit", 0, NoSignal)
      [] cmd = "echo Hello world; exit 1" -> Beh(<<HelloWorld \o <<LF>>>>, <<>>, "exit", 1, NoSignal)
      [] cmd = "echo Hello world; kill -SEGV $$" -> Beh(<<HelloWorld \o <<LF>>>>, <<>>, "signal", NoCode, "SIGSEGV")
      [] cmd = "echo Hello world; sleep inf" -> Beh(<<HelloWorld \o <<LF>>>>, <<>>, "never", NoCode, NoSignal)
      [] cmd = "make"                     -> Beh(<<<<"c", "c", LF>>>>, <<>>, "exit", 0, NoSignal)
      [] cmd = "make; false"              -> Beh(<<<<"c", "c", LF>>>>, <<>>, "exit", 2, NoSignal)
      [] cmd = "sleep inf"                -> Beh(<<>>, <<>>, "never", NoCode, NoSignal)
      [] cmd = "spawn fails"              -> Beh(<<>>, <<>>, "error", NoCode, NoSignal)
      [] OTHER                            -> Beh(<<>>, <<>>, "exit", 127, NoSignal)

----------------------------------------------------------------------------
(* Tests (interface Test).  An optional field that the test list leaves    *)
(* out is undefined: `declared` holds the optional numeric fields that are *)
(* present; an absent text is the empty text, an absent flag is FALSE, an  *)
(* absent comparison is "absent".                                          *)

Test(setup, cmd, input, output, comparison, minutes, declared, pts, extra) ==
    [name |-> "", setup |-> setup, run |-> cmd, input |-> input, output |-> output,
     comparison |-> comparison, timeout |-> minutes, declared |-> declared,
     points |-> pts, extra |-> extra]

(* `if (test.points)`: declared and not 0 *)
truthyPoints(test) == "points" \in test.declared /\ test.points # 0

Names == <<"A", "B", "C", "D", "E">>

(* the tests of a list are named by their position *)
named(list) == [k \in DOMAIN list |-> [list[k] EXCEPT !.name = Names[k]]]

RunCommands ==
    {"echo Hello world", "printf 'Hello\\r\\nworld'", "echo Hello", "echo 42", "echo 42a",
     "echo Hello >&2; echo world", "true", "echo Hello world; exit 1",
     "echo Hello world; kill -SEGV $$", "echo Hello world; sleep inf", "spawn fails"}

SetupCommands == {"make", "make; false", "sleep inf", "spawn fails"}

Comparisons == {"exact", "included", "regex", "absent", "contains"}

Expected ==
    {NoText, Hello, HelloWorld, <<" ">> \o HelloWorld \o <<CR, LF>>, Hello \o <<CR, LF>> \o World,
     Hello \o <<LF>> \o World, NumberPattern, BadPattern}

Inputs == {NoText, <<"x", LF>>}

(* one test, every combination of command, comparison, expected text and input *)
CompareTests ==
    {Test("", c, i, o, m, 1, {}, 0, FALSE) :
        c \in RunCommands, i \in Inputs, o \in Expected, m \in Comparisons}

(* one test with a setup command *)
SetupTests ==
    {Test(s, c, NoText, Hello, "included", 0, {"points"}, 10, x) :
        s \in SetupCommands, c \in {"echo Hello", "echo 42", "sleep inf"}, x \in BOOLEAN}

(* the tests the generated lists are made of *)
SuiteTests ==
    {Test("", "echo Hello", NoText, Hello, "included", 1, {}, 0, FALSE),
     Test("", "echo Hello", NoText, World, "exact", 1, {"points"}, 10, FALSE),
     Test("", "echo 42", NoText, NumberPattern, "regex", 1, {"points"}, 15, TRUE)}

(* a test that declares points: 0 *)
ZeroPointsTest ==
    Test("", "echo Hello world; exit 1", NoText, Hello, "included", 0, {"points"}, 0, FALSE)

Worth(pts, extra, cmd) == Test("", cmd, NoText, Hello, "included", 1, {"points"}, pts, extra)

(* three tests worth 10/20/30 of which the first fails, alone and followed *)
(* by an extra-credit test worth 15; a test with a setup command followed  *)
(* by a test without one; an exact and an included test for one command;   *)
(* a regex test with a malformed pattern followed by a test that passes    *)
ExampleSuites ==
    {<<Worth(10, FALSE, "echo 42"), Worth(20, FALSE, "echo Hello"), Worth(30, FALSE, "echo Hello")>>,
     <<Worth(10, FALSE, "echo 42"), Worth(20, FALSE, "echo Hello"), Worth(30, FALSE, "echo Hello"),
       Worth(15, TRUE, "echo Hello")>>}
    \cup {<<t, Worth(20, FALSE, "echo Hello")>> :
            t \in {u \in SetupTests : u.run = "echo Hello" /\ ~u.extra}}
    \cup {<<Test("", "echo Hello world", NoText, Hello, "exact", 1, {}, 0, FALSE),
             Test("", "echo Hello world", NoText, Hello, "included", 1, {}, 0, FALSE)>>}
    \cup {<<Test("", "echo 42", NoText, BadPattern, "regex", 1, {}, 0, x),
             Test("", "echo Hello", NoText, Hello, "included", 1, {}, 0, FALSE)>> : x \in BOOLEAN}

(* a test of each comparison whose command writes the word regex, and an  *)
(* extra regex test whose pattern does not match                           *)
HintTests ==
    {Test("", "echo regex", NoText, Hello, m, 1, {}, 0, FALSE) : m \in {"exact", "included", "regex"}}
    \cup {Test("", "echo 42a", NoText, NumberPattern, "regex", 1, {"points"}, 15, TRUE)}

(* one test for every timeout from 0 (or absent) to MaxMinutes minutes *)
TimeoutTests ==
    {Test("", c, NoText, Hello, "included", m, IF d THEN {"timeout"} ELSE {}, 0, FALSE) :
        c \in {"echo Hello", "sleep inf"}, m \in 0..MaxMinutes, d \in BOOLEAN}
    \ {Test("", c, NoText, Hello, "included", m, {}, 0, FALSE) :
        c \in {"echo Hello", "sleep inf"}, m \in 1..MaxMinutes}

RECURSIVE listsUpTo(_, _)
listsUpTo(S, n) ==
    IF n = 0 THEN {<<>>}
    ELSE listsUpTo(S, n - 1) \cup {Append(l, t) : l \in {m \in listsUpTo(S, n - 1) : Len(m) = n - 1}, t \in S}

Suites ==
    {named(l) : l \in listsUpTo(SuiteTests, MaxTests) \cup ExampleSuites
                      \cup {<<t>> : t \in CompareTests \cup SetupTests \cup TimeoutTests \cup HintTests
                                               \cup {ZeroPointsTest}}}

----------------------------------------------------------------------------
(* fuzzySearch.ts.  A score is a fraction <<numerator, denominator>> with  *)
(* a positive denominator: the similarity is computed exactly, where the   *)
(* code computes it in floating point.  Positions are counted from 1.      *)

Min(a, b) == IF a < b THEN a ELSE b
Max(a, b) == IF a > b THEN a ELSE b

(* prev[1] < score *)
less(a, b) == a[1] * b[2] < b[1] * a[2]

(* score == 1.0 *)
isOne(a) == a[1] = a[2]

RECURSIVE collapse(_)
(* input.replace(/\r?\n/g, ' ') *)
collapse(text) ==
    IF Len(text) = 0 THEN <<>>
    ELSE IF Len(text) >= 2 /\ text[1] = CR /\ text[2] = LF
         THEN <<" ">> \o collapse(SubSeq(text, 3, Len(text)))
         ELSE IF text[1] = LF
              THEN <<" ">> \o collapse(Tail(text))
              ELSE <<text[1]>> \o collapse(Tail(text))

toWindows(input, size) ==
    IF size > Len(input) THEN <<input>>
    ELSE [i \in 1..(Len(input) - size + 1) |-> SubSeq(input, i, i + size - 1)]

RECURSIVE findMatchesForward(_, _, _, _, _, _)
(* findMatches looking for the equal character of str2 at position i and   *)
(* after it only                                                           *)
findMatchesForward(str1, str2, maxDist, i, str1Matches, str2Matches) ==
    IF i > Len(str1) THEN [str1Matches |-> str1Matches, str2Matches |-> str2Matches]
    ELSE LET js == {j \in i..Min(Len(str2), i + maxDist) :
                        str1[i] = str2[j] /\ j \notin str2Matches}
         IN  IF js = {}
             THEN findMatchesForward(str1, str2, maxDist, i + 1, str1Matches, str2Matches)
             ELSE LET j == CHOOSE x \in js : \A y \in js : x <= y
                  IN  findMatchesForward(str1, str2, maxDist, i + 1,
                                         str1Matches \cup {i}, str2Matches \cup {j})

RECURSIVE findMatches(_, _, _, _, _, _)
(* the first loop of jaroWinklerSimilarity from position i on: every       *)
(* character of str1 takes the first equal character of str2 that is not   *)
(* matched yet and is at most maxDist positions away                       *)
findMatches(str1, str2, maxDist, i, str1Matches, str2Matches) ==
    IF i > Len(str1) THEN [str1Matches |-> str1Matches, str2Matches |-> str2Matches]
    ELSE LET js == {j \in Max(1, i - maxDist)..Min(Len(str2), i + maxDist) :
                        str1[i] = str2[j] /\ j \notin str2Matches}
         IN  IF js = {}
             THEN findMatches(str1, str2, maxDist, i + 1, str1Matches, str2Matches)
             ELSE LET j == CHOOSE x \in js : \A y \in js : x <= y
                  IN  findMatches(str1, str2, maxDist, i + 1,
                                  str1Matches \cup {i}, str2Matches \cup {j})

RECURSIVE countTranspositions(_, _, _, _, _, _)
(* the second loop: the matched characters of str1, in order, against the  *)
(* matched characters of str2, in order, from position i of str1 and k of  *)
(* str2 on; the number of pairs that differ                                *)
countTranspositions(str1, str2, str1Matches, str2Matches, i, k) ==
    IF i > Len(str1) THEN 0
    ELSE IF i \notin str1Matches
         THEN countTranspositions(str1, str2, str1Matches, str2Matches, i + 1, k)
         ELSE LET kk == CHOOSE x \in str2Matches :
                            x >= k /\ \A y \in str2Matches : y >= k => x <= y
              IN  (IF str1[i] # str2[kk] THEN 1 ELSE 0)
                  + countTranspositions(str1, str2, str1Matches, str2Matches, i + 1, kk + 1)

(* the third loop: the positions below 4 at which the strings agree *)
prefixLength(str1, str2) ==
    Cardinality({i \in 1..Min(Min(Len(str1), Len(str2)), 4) : str1[i] = str2[i]})

(* `jaro`: (matches / len1 + matches / len2 + (matches - transpositions) / *)
(* matches) / 3.0, where transpositions is half the number of matched      *)
(* pairs that differ; 0 when nothing matches                               *)
jaro(str1, str2) ==
    LET len1 == Len(str1)
        len2 == Len(str2)
        maxDist == (Max(len1, len2) \div 2) - 1
        found == findMatches(str1, str2, maxDist, 1, {}, {})
        matches == Cardinality(found.str1Matches)
        twice == countTranspositions(str1, str2, found.str1Matches, found.str2Matches, 1, 1)
    IN  IF matches = 0 THEN <<0, 1>>
        ELSE <<2 * matches * matches * len2 + 2 * matches * matches * len1
                 + (2 * matches - twice) * len1 * len2,
               6 * matches * len1 * len2>>

(* jaro + prefixLength * 0.25 * (1 - jaro) *)
boost(j, p) == <<4 * j[1] + p * (j[2] - j[1]), 4 * j[2]>>

jaroWinklerSimilarity(str1, str2) ==
    IF str1 = str2 THEN <<1, 1>>
    ELSE LET j == jaro(str1, str2)
         IN  IF j[1] = 0 THEN <<0, 1>>
             ELSE boost(j, prefixLength(str1, str2))

(* the reduce callback keeping the later of two windows with equal scores *)
closerOrEqual(prev, index, score) ==
    IF ~less(score, prev.score) THEN [index |-> index, score |-> score] ELSE prev

(* the reduce callback: prev[1] < score ? [index, score] : prev *)
closer(prev, index, score) ==
    IF less(prev.score, score) THEN [index |-> index, score |-> score] ELSE prev

(* no call of fuzzySearch *)
NoFuzzy ==
    [pc |-> "idle", input |-> <<>>, toFind |-> <<>>, windows |-> <<>>, index |-> 0,
     prev |-> [index |-> 0, score |-> <<0, 1>>], curr |-> <<>>, score |-> <<0, 1>>,
     result |-> <<>>, closestIndex |-> 0, currLine |-> 0]

(* the texts fuzzySearch is called with *)
Sentence ==
    <<"T", "h", "e", " ", "q", "u", "i", "c", "k", " ", "b", "r", "o", "w", "n", " ",
      "f", "o", "x", " ", "j", "u", "m", "p", "e", "d", " ", "o", "v", "e", "r", " ",
      "t", "h", "e", " ", "l", "a", "z", "y", " ", "d", "o", "g", ".">>

Fxo == <<"f", "x", "o">>
Fox == <<"f", "o", "x">>

NeedleAlphabet == {"a", "b"}
HaystackAlphabet == {"a", "b", LF}

(* a text with repeated letters, and the needles that are longer than      *)
(* MaxLen by one or two: a letter of such a needle has more than one       *)
(* letter of a window it can be matched with                               *)
RepeatingText == <<"a", "a", "b", "b", "a", "b", "a", "b", "b", "a">>

LongNeedles == {n \in listsUpTo(NeedleAlphabet, MaxLen + 2) : Len(n) > MaxLen}

FuzzyInputs ==
    {<<h, n>> : h \in listsUpTo(HaystackAlphabet, MaxLen + 1), n \in listsUpTo(NeedleAlphabet, MaxLen)}
    \cup {<<RepeatingText, n>> : n \in LongNeedles}
    \cup {<<Sentence, Fxo>>,
          <<<<"a", "b", "c", "d", "e", " ", "a", "b", "c", "d", "f">>, <<"a", "b", "c", "d", "f">>>>,
          <<<<"a", CR, LF, "b", LF, "a">>, <<"b", " ", "a">>>>,
          <<Hello \o <<LF>> \o World, HelloWorld>>}

----------------------------------------------------------------------------
(* includedDiffMessage (runner.ts): where the closest match is.  Offsets   *)
(* are counted from 0 as in the code, lines from 1.                        *)

RECURSIVE splitLines(_)
(* actual.split(/\r?\n/) *)
splitLines(text) ==
    IF \A k \in DOMAIN text : text[k] # LF THEN <<text>>
    ELSE LET n == CHOOSE k \in DOMAIN text : text[k] = LF /\ \A j \in 1..(k - 1) : text[j] # LF
             line == SubSeq(text, 1, n - 1)
         IN  <<IF Len(line) > 0 /\ line[Len(line)] = CR THEN SubSeq(line, 1, Len(line) - 1) ELSE line>>
             \o splitLines(SubSeq(text, n + 1, Len(text)))

RECURSIVE strip(_)
(* actual.replace(/\r?\n/g, '') *)
strip(text) ==
    IF Len(text) = 0 THEN <<>>
    ELSE IF Len(text) >= 2 /\ text[1] = CR /\ text[2] = LF
         THEN strip(SubSeq(text, 3, Len(text)))
         ELSE IF text[1] = LF
              THEN strip(Tail(text))
              ELSE <<text[1]>> \o strip(Tail(text))

(* String.prototype.indexOf *)
indexOf(text, part) ==
    LET at == {k \in 1..(Len(text) - Len(part) + 1) : SubSeq(text, k, k + Len(part) - 1) = part}
    IN  IF at = {} THEN -1 ELSE (CHOOSE k \in at : \A j \in at : k <= j) - 1

RECURSIVE lineOf(_, _, _, _)
(* while (charCount < closestIndex) { charCount += actualLines[currLine -  *)
(* 1].length; currLine++ }                                                 *)
lineOf(actualLines, closestIndex, charCount, currLine) ==
    IF charCount < closestIndex
    THEN lineOf(actualLines, closestIndex, charCount + Len(actualLines[currLine]), currLine + 1)
    ELSE currLine

----------------------------------------------------------------------------
(* exactDiffMessage (runner.ts): the part of the message that is made line *)
(* by line.  `report` has one entry per pair of lines the function looks   *)
(* at; lines are numbered from 0 as in the message.                        *)

(* `diffLine`: a copy of the expected line with ^ over every character the *)
(* actual line does not have at that place and _ over the others           *)
diffLine(actualLine, expectedLine) ==
    [j \in 1..Len(expectedLine) |->
        IF j > Len(actualLine) \/ actualLine[j] # expectedLine[j] THEN "^" ELSE "_"]

(* compareLines *)
compareLines(actualLine, expectedLine) ==
    IF actualLine = expectedLine
    THEN [kind |-> "same", expected |-> expectedLine, actual |-> actualLine, diff |-> <<>>]
    ELSE [kind |-> "differ", expected |-> expectedLine, actual |-> actualLine,
          diff |-> diffLine(actualLine, expectedLine)]

RECURSIVE walkLines(_, _, _)
(* the loop over the lines when the line counts are equal, from line i on: *)
(* it returns at the first line that differs                               *)
walkLines(linesActual, linesExpected, i) ==
    IF i > Len(linesExpected) THEN <<>>
    ELSE IF linesActual[i] = linesExpected[i]
         THEN <<[kind |-> "same", line |-> i - 1, to |-> i - 1,
                 expected |-> linesExpected[i], actual |-> linesActual[i], diff |-> <<>>]>>
              \o walkLines(linesActual, linesExpected, i + 1)
         ELSE <<[kind |-> "mismatch", line |-> i - 1, to |-> i - 1,
                 expected |-> linesExpected[i], actual |-> linesActual[i],
                 diff |-> diffLine(linesActual[i], linesExpected[i])]>>

(* the loops when the line counts differ: every expected line against      *)
(* every actual line                                                       *)
crossLines(linesActual, linesExpected) ==
    [n \in 1..(Len(linesExpected) * Len(linesActual)) |->
        LET k == (n - 1) \div Len(linesActual)
            l == (n - 1) % Len(linesActual)
            c == compareLines(linesActual[l + 1], linesExpected[k + 1])
        IN  [kind |-> c.kind, line |-> k, to |-> l,
             expected |-> c.expected, actual |-> c.actual, diff |-> c.diff]]

exactDiffMessage(actual, expected) ==
    LET linesActual   == splitLines(actual)
        linesExpected == splitLines(expected)
    IN  [linesExpected |-> Len(linesExpected), linesActual |-> Len(linesActual),
         report |-> IF Len(linesExpected) = Len(linesActual)
                    THEN walkLines(linesActual, linesExpected, 1)
                    ELSE crossLines(linesActual, linesExpected)]

(* no call of exactDiffMessage *)
NoDiff ==
    [pc |-> "idle", output |-> <<>>, expected |-> <<>>,
     message |-> [linesExpected |-> 0, linesActual |-> 0, report |-> <<>>]]

(* what a command wrote and what a test expects, as written *)
DiffTexts ==
    listsUpTo(HaystackAlphabet, MaxLen)
    \cup {<<"a", CR, CR, LF, "b">>, <<"a", "b", LF, "b", "a">>, <<"a", "b", LF, "a", "b">>,
          <<"a", LF, "b", "b", "b">>}

----------------------------------------------------------------------------
(* Errors.  An error is its class and the parts its message is built of.   *)

Error(cls, kind, output, code, signal, ms, expected, actual) ==
    [cls |-> cls, kind |-> kind, output |-> output, code |-> code, signal |-> signal,
     ms |-> ms, expected |-> expected, actual |-> actual, wrapped |-> FALSE]

NoError == Error("none", "none", <<>>, NoCode, NoSignal, 0, <<>>, <<>>)

(* new TestTimeoutError(`Setup timed out in ${timeout} milliseconds`) *)
TestTimeoutError(ms) ==
    Error("TestTimeoutError", "timed out", <<>>, NoCode, NoSignal, ms, <<>>, <<>>)

(* new TestError(`Error: Exit with code: ${code} and signal: ${signal}`) *)
ExitError(code, signal) ==
    Error("TestError", "exit", <<>>, code, signal, 0, <<>>, <<>>)

(* the Error of an 'error' event of the child *)
SpawnError == Error("Error", "spawn", <<>>, NoCode, NoSignal, 0, <<>>, <<>>)

(* the catch blocks of runSetup and runCommand: the error is thrown again, *)
(* in its class, with the output buffered so far in front of its message   *)
rethrow(output, error) == [error EXCEPT !.output = output, !.wrapped = TRUE]

----------------------------------------------------------------------------
(* waitForExit: one record per call.                                       *)
(*   stdout, stderr  chunks the child wrote that no 'data' event has       *)
(*                   delivered yet                                         *)
(*   output          the `output` buffer of the caller's closure           *)
(*   timer           "armed", "cleared" or "fired"                         *)
(*   exit, error     "none", "pending" (the event will be emitted) or      *)
(*                   "delivered"                                           *)
(*   settled         the promise: "pending", "resolved" or "rejected"      *)

(* setTimeout takes a delay below 1 ms as 1 ms *)
timerDelay(ms) == IF ms < 1 THEN 1 ELSE ms

waitForExit(i, phase, cmd, ms, now) ==
    LET b == Behaviour(cmd) IN
    [test |-> i, phase |-> phase, cmd |-> cmd,
     stdout |-> b.stdout, stderr |-> b.stderr, output |-> <<>>,
     timeout |-> ms, deadline |-> now + timerDelay(ms), timer |-> "armed", timedOut |-> FALSE,
     exit |-> IF b.ending \in {"exit", "signal"} THEN "pending" ELSE "none",
     error |-> IF b.ending = "error" THEN "pending" ELSE "none",
     code |-> b.code, signal |-> b.signal,
     settled |-> "pending", reason |-> NoError, killed |-> FALSE]

resolve(c) == IF c.settled = "pending" THEN [c EXCEPT !.settled = "resolved"] ELSE c

reject(c, e) ==
    IF c.settled = "pending" THEN [c EXCEPT !.settled = "rejected", !.reason = e] ELSE c

(* kill(child.pid): a child that is still running dies of SIGTERM *)
kill(c) ==
    IF c.exit = "none" /\ c.error = "none"
    THEN [c EXCEPT !.killed = TRUE, !.exit = "pending", !.signal = "SIGTERM"]
    ELSE [c EXCEPT !.killed = TRUE]

(* onTimeout without the call of kill *)
onTimeoutNoKill(c) ==
    reject([c EXCEPT !.timedOut = TRUE, !.timer = "fired"], TestTimeoutError(c.timeout))

(* onTimeout without the call of reject *)
onTimeoutNoReject(c) == kill([c EXCEPT !.timedOut = TRUE, !.timer = "fired"])

(* the setTimeout callback *)
onTimeout(c) ==
    kill(reject([c EXCEPT !.timedOut = TRUE, !.timer = "fired"], TestTimeoutError(c.timeout)))

(* clearTimeout leaving the timer armed *)
clearTimeoutNot(c) == c

clearTimeout(c) == IF c.timer = "armed" THEN [c EXCEPT !.timer = "cleared"] ELSE c

(* onExit taking every exit for a success *)
onExitAnyCode(c) ==
    LET d == [c EXCEPT !.exit = "delivered"] IN
    IF d.timedOut THEN d ELSE resolve([d EXCEPT !.timer = "cleared"])

(* the 'exit' listener *)
onExit(c) ==
    LET d == [c EXCEPT !.exit = "delivered"] IN
    IF d.timedOut THEN d
    ELSE IF d.code = 0 THEN resolve(clearTimeout(d))
         ELSE reject(clearTimeout(d), ExitError(d.code, d.signal))

(* onError resolving the promise *)
onErrorResolves(c) ==
    LET d == [c EXCEPT !.error = "delivered"] IN
    IF d.timedOut THEN d ELSE resolve([d EXCEPT !.timer = "cleared"])

(* the 'error' listener *)
onError(c) ==
    LET d == [c EXCEPT !.error = "delivered"] IN
    IF d.timedOut THEN d ELSE reject(clearTimeout(d), SpawnError)

(* the stderr listener passing the chunk on without buffering it *)
onStderrNotBuffered(c) == [c EXCEPT !.stderr = Tail(@)]

(* a 'data' listener: output += chunk *)
onStdout(c) == [c EXCEPT !.output = @ \o Head(c.stdout), !.stdout = Tail(@)]

onStderr(c) == [c EXCEPT !.output = @ \o Head(c.stderr), !.stderr = Tail(@)]

----------------------------------------------------------------------------
(* runCommand after the child has exited with code 0: NoError when the     *)
(* function returns the output, else the error it throws.                  *)

(* runCommandThrows comparing the texts as they are, not normalized *)
runCommandThrowsRaw(test, output) ==
    IF test.output = <<>> /\ test.input = <<>> THEN NoError
    ELSE CASE test.comparison = "exact" ->
                IF output # test.output
                THEN Error("TestError", "does not match", <<>>, NoCode, NoSignal, 0, test.output, output)
                ELSE NoError
           [] test.comparison = "regex" ->
                IF ~regexValid(test.output)
                THEN Error("SyntaxError", "invalid regular expression", <<>>, NoCode, NoSignal, 0,
                           test.output, <<>>)
                ELSE IF ~regexMatch(output, test.output)
                     THEN Error("TestOutputError", "regex did not match", <<>>, NoCode, NoSignal, 0,
                                test.output, output)
                     ELSE NoError
           [] OTHER ->
                IF ~includes(output, test.output)
                THEN Error("TestError", "did not match", <<>>, NoCode, NoSignal, 0, test.output, output)
                ELSE NoError

(* runCommandThrows without the early return for a test that expects nothing *)
runCommandThrowsAlwaysCompares(test, output) ==
    LET expected == normalizeLineEndings(test.output)
        actual   == normalizeLineEndings(output)
    IN  CASE test.comparison = "exact" ->
               IF actual # expected
               THEN Error("TestError", "does not match", <<>>, NoCode, NoSignal, 0, expected, actual)
               ELSE NoError
          [] test.comparison = "regex" ->
               IF ~regexValid(test.output)
               THEN Error("SyntaxError", "invalid regular expression", <<>>, NoCode, NoSignal, 0,
                          test.output, <<>>)
               ELSE IF ~regexMatch(actual, test.output)
                    THEN Error("TestOutputError", "regex did not match", <<>>, NoCode, NoSignal, 0,
                               test.output, actual)
                    ELSE NoError
          [] OTHER ->
               IF ~includes(actual, expected)
               THEN Error("TestError", "did not match", <<>>, NoCode, NoSignal, 0, expected, actual)
               ELSE NoError

(* runCommandThrows returning early whenever no output is expected, with   *)
(* or without an input                                                     *)
runCommandThrowsInputIgnored(test, output) ==
    IF test.output = <<>> THEN NoError ELSE runCommandThrowsAlwaysCompares(test, output)

(* runCommandThrows building the RegExp from `expected`, the normalized text *)
runCommandThrowsRegexOfExpected(test, output) ==
    IF test.output = <<>> /\ test.input = <<>> THEN NoError
    ELSE LET expected == normalizeLineEndings(test.output)
             actual   == normalizeLineEndings(output)
         IN  CASE test.comparison = "exact" ->
                    IF actual # expected
                    THEN Error("TestError", "does not match", <<>>, NoCode, NoSignal, 0, expected, actual)
                    ELSE NoError
               [] test.comparison = "regex" ->
                    IF ~regexValid(expected)
                    THEN Error("SyntaxError", "invalid regular expression", <<>>, NoCode, NoSignal, 0,
                               expected, <<>>)
                    ELSE IF ~regexMatch(actual, expected)
                         THEN Error("TestOutputError", "regex did not match", <<>>, NoCode, NoSignal, 0,
                                    expected, actual)
                         ELSE NoError
               [] OTHER ->
                    IF ~includes(actual, expected)
                    THEN Error("TestError", "did not match", <<>>, NoCode, NoSignal, 0, expected, actual)
                    ELSE NoError

(* runCommandThrows taking a malformed pattern for a pattern that does not *)
(* match                                                                   *)
runCommandThrowsBadPatternNoMatch(test, output) ==
    IF test.output = <<>> /\ test.input = <<>> THEN NoError
    ELSE LET expected == normalizeLineEndings(test.output)
             actual   == normalizeLineEndings(output)
         IN  CASE test.comparison = "exact" ->
                    IF actual # expected
                    THEN Error("TestError", "does not match", <<>>, NoCode, NoSignal, 0, expected, actual)
                    ELSE NoError
               [] test.comparison = "regex" ->
                    IF ~regexValid(test.output) \/ ~regexMatch(actual, test.output)
                    THEN Error("TestOutputError", "regex did not match", <<>>, NoCode, NoSignal, 0,
                               test.output, actual)
                    ELSE NoError
               [] OTHER ->
                    IF ~includes(actual, expected)
                    THEN Error("TestError", "did not match", <<>>, NoCode, NoSignal, 0, expected, actual)
                    ELSE NoError

runCommandThrows(test, output) ==
    IF test.output = <<>> /\ test.input = <<>> THEN NoError
    ELSE LET expected == normalizeLineEndings(test.output)
             actual   == normalizeLineEndings(output)
         IN  CASE test.comparison = "exact" ->
                    IF actual # expected
                    THEN Error("TestError", "does not match", <<>>, NoCode, NoSignal, 0, expected, actual)
                    ELSE NoError
               [] test.comparison = "regex" ->
                    IF ~regexValid(test.output)
                    THEN Error("SyntaxError", "invalid regular expression", <<>>, NoCode, NoSignal, 0,
                               test.output, <<>>)
                    ELSE IF ~regexMatch(actual, test.output)
                         THEN Error("TestOutputError", "regex did not match", <<>>, NoCode, NoSignal, 0,
                                    test.output, actual)
                         ELSE NoError
               [] OTHER ->
                    IF ~includes(actual, expected)
                    THEN Error("TestError", "did not match", <<>>, NoCode, NoSignal, 0, expected, actual)
                    ELSE NoError

(* fullTimeout without the default of one minute: test.timeout * 60 * 1000 || 30000 *)
fullTimeoutNoDefault(test) ==
    LET ms == test.timeout * 60 * 1000
    IN  IF ms = 0 THEN 30000 ELSE ms

(* run(): (test.timeout || 1) * 60 * 1000 || 30000 *)
fullTimeout(test) ==
    LET minutes == IF test.timeout = 0 THEN 1 ELSE test.timeout
        ms == minutes * 60 * 1000
    IN  IF ms = 0 THEN 30000 ELSE ms

(* error.message.indexOf('regex') != -1: the word is in the message of a   *)
(* TestOutputError, and in any message that quotes a text containing it    *)
Regex == <<"r", "e", "g", "e", "x">>

mentionsRegex(e) ==
    \/ e.cls = "TestOutputError"
    \/ includes(e.output, Regex) \/ includes(e.expected, Regex) \/ includes(e.actual, Regex)

NoOutputText == <<"n", "o", " ", "o", "u", "t", "p", "u", "t">>

----------------------------------------------------------------------------
(* runAll *)

Init ==
    /\ tests \in Suites
    /\ pc = "loop"
    /\ idx = 1
    /\ clock = 0
    /\ calls = <<>>
    /\ timeout = 0
    /\ points = 0
    /\ availablePoints = 0
    /\ passed = 0
    /\ numtests = 0
    /\ hasPoints = FALSE
    /\ failed = FALSE
    /\ passing = <<>>
    /\ failing = <<>>
    /\ token = 0
    /\ log = <<>>
    /\ summary = <<>>
    /\ outputs = <<>>
    /\ caught = <<>>
    /\ failureSignalled = FALSE
    /\ fuzzy = NoFuzzy
    /\ diff = NoDiff

current == calls[Len(calls)]

settle(c) == [calls EXCEPT ![Len(calls)] = c]

(* testPassed counting the points of the tests that are not extra only *)
testPassedRequiredOnly(result) ==
    LET test == tests[idx] IN
    /\ log' = log \o << <<"resume", token>>, <<"completed", test.name>> >>
    /\ summary' = summary \o << <<"addRaw", "Passed", test.name>>,
                                <<"addCodeBlock", "result",
                                  IF result = <<>> THEN NoOutputText ELSE result>> >>
    /\ points' = IF truthyPoints(test) /\ ~test.extra THEN points + test.points ELSE points
    /\ passing' = Append(passing, test.name)
    /\ passed' = passed + 1
    /\ UNCHANGED <<availablePoints, numtests, hasPoints, failed, failing, caught>>

(* testPassed without `passed += 1` *)
testPassedNotCounted(result) ==
    LET test == tests[idx] IN
    /\ log' = log \o << <<"resume", token>>, <<"completed", test.name>> >>
    /\ summary' = summary \o << <<"addRaw", "Passed", test.name>>,
                                <<"addCodeBlock", "result",
                                  IF result = <<>> THEN NoOutputText ELSE result>> >>
    /\ points' = IF truthyPoints(test) THEN points + test.points ELSE points
    /\ passing' = Append(passing, test.name)
    /\ passed' = passed
    /\ UNCHANGED <<availablePoints, numtests, hasPoints, failed, failing, caught>>

(* the try block after `await run(test, cwd)` has returned `result`; the   *)
(* empty lines of the log are left out                                     *)
testPassed(result) ==
    LET test == tests[idx] IN
    /\ log' = log \o << <<"resume", token>>, <<"completed", test.name>> >>
    /\ summary' = summary \o << <<"addRaw", "Passed", test.name>>,
                                <<"addCodeBlock", "result",
                                  IF result = <<>> THEN NoOutputText ELSE result>> >>
    /\ points' = IF truthyPoints(test) THEN points + test.points ELSE points
    /\ passing' = Append(passing, test.name)
    /\ passed' = passed + 1
    /\ UNCHANGED <<availablePoints, numtests, hasPoints, failed, failing, caught>>

(* testFailed setting the failed flag for extra tests too *)
testFailedAnyTest(error) ==
    LET test == tests[idx]
        hint == mentionsRegex(error)
    IN
    /\ log' = log \o << <<"resume", token>>, <<"needs repair", test.name>> >>
                  \o (IF ~test.extra THEN << <<"errors", error, hint>> >> ELSE <<>>)
    /\ caught' = Append(caught, [test |-> idx, error |-> error])
    /\ failing' = Append(failing, test.name)
    /\ failed' = TRUE
    /\ summary' = summary \o
          (IF ~test.extra
           THEN << <<"addRaw", "Needs Repair", test.name>>, <<"addCodeBlock", "message", error>> >>
                \o (IF hint THEN << <<"addRaw", "debuggex", test.name>> >> ELSE <<>>)
           ELSE <<>>)
    /\ UNCHANGED <<points, availablePoints, passed, numtests, hasPoints, passing>>

(* testFailed listing the failing test only when it is not extra *)
testFailedExtraNotListed(error) ==
    LET test == tests[idx]
        hint == mentionsRegex(error)
    IN
    /\ log' = log \o << <<"resume", token>>, <<"needs repair", test.name>> >>
                  \o (IF ~test.extra THEN << <<"errors", error, hint>> >> ELSE <<>>)
    /\ caught' = Append(caught, [test |-> idx, error |-> error])
    /\ failing' = IF ~test.extra THEN Append(failing, test.name) ELSE failing
    /\ failed' = (failed \/ ~test.extra)
    /\ summary' = summary \o
          (IF ~test.extra
           THEN << <<"addRaw", "Needs Repair", test.name>>, <<"addCodeBlock", "message", error>> >>
                \o (IF hint THEN << <<"addRaw", "debuggex", test.name>> >> ELSE <<>>)
           ELSE <<>>)
    /\ UNCHANGED <<points, availablePoints, passed, numtests, hasPoints, passing>>

(* testFailed without the log of the resume marker *)
testFailedNoResume(error) ==
    LET test == tests[idx]
        hint == mentionsRegex(error)
    IN
    /\ log' = log \o << <<"needs repair", test.name>> >>
                  \o (IF ~test.extra THEN << <<"errors", error, hint>> >> ELSE <<>>)
    /\ caught' = Append(caught, [test |-> idx, error |-> error])
    /\ failing' = Append(failing, test.name)
    /\ failed' = (failed \/ ~test.extra)
    /\ summary' = summary \o
          (IF ~test.extra
           THEN << <<"addRaw", "Needs Repair", test.name>>, <<"addCodeBlock", "message", error>> >>
                \o (IF hint THEN << <<"addRaw", "debuggex", test.name>> >> ELSE <<>>)
           ELSE <<>>)
    /\ UNCHANGED <<points, availablePoints, passed, numtests, hasPoints, passing>>

(* the catch block of the loop; every error the model throws is an Error   *)
testFailed(error) ==
    LET test == tests[idx]
        hint == mentionsRegex(error)
    IN
    /\ log' = log \o << <<"resume", token>>, <<"needs repair", test.name>> >>
                  \o (IF ~test.extra THEN << <<"errors", error, hint>> >> ELSE <<>>)
    /\ caught' = Append(caught, [test |-> idx, error |-> error])
    /\ failing' = Append(failing, test.name)
    /\ failed' = (failed \/ ~test.extra)
    /\ summary' = summary \o
          (IF ~test.extra
           THEN << <<"addRaw", "Needs Repair", test.name>>, <<"addCodeBlock", "message", error>> >>
                \o (IF hint THEN << <<"addRaw", "debuggex", test.name>> >> ELSE <<>>)
           ELSE <<>>)
    /\ UNCHANGED <<points, availablePoints, passed, numtests, hasPoints, passing>>

(* for (const test of tests): a loop whose condition ignores failures *)
loopGoesOnUnlessFailed == pc = "loop" /\ idx <= Len(tests) /\ ~failed

(* tests.forEach(async test => ...): the next iteration does not wait for *)
(* the one before it                                                      *)
loopGoesOnWhileAwaiting == pc \in {"loop", "setup", "run"} /\ idx <= Len(tests)

(* for (const test of tests): there is a next test *)
loopGoesOn == pc = "loop" /\ idx <= Len(tests)

(* for (const test of tests): the list is exhausted *)
loopIsOver == pc = "loop" /\ idx > Len(tests)

(* uuidv4(): the values the n-th call may return; a value is returned by    *)
(* one call at most                                                        *)
uuidv4(n) == {2 * n - 1, 2 * n}

(* the head of a loop iteration, run() and runSetup() up to the first      *)
(* await: the setup command is spawned, or with no setup the run command   *)
BeginTest ==
    /\ loopGoesOn
    /\ \E tok \in uuidv4(numtests + 1) :
        LET test == tests[idx]
            ms   == fullTimeout(test)
        IN  /\ numtests' = numtests + 1
            /\ token' = tok
            /\ log' = log \o << <<"stop-commands", tok>>, <<"name", test.name>> >>
            /\ hasPoints' = (hasPoints \/ truthyPoints(test))
            /\ availablePoints' = IF truthyPoints(test) /\ ~test.extra
                                  THEN availablePoints + test.points ELSE availablePoints
            /\ clock' = 0
            /\ timeout' = ms
            /\ IF test.setup # ""
               THEN /\ calls' = Append(calls, waitForExit(idx, "setup", test.setup, ms, 0))
                    /\ pc' = "setup"
               ELSE /\ calls' = Append(calls, waitForExit(idx, "run", test.run, ms, 0))
                    /\ pc' = "run"
    /\ UNCHANGED <<fuzzy, diff, tests, idx, points, passed, failed, passing, failing, summary, outputs,
                   caught, failureSignalled>>

(* time passes while a child is awaited *)
Tick ==
    /\ pc \in {"setup", "run"}
    /\ \E step \in TickSteps :
        /\ clock + step <= MaxClock
        /\ clock' = clock + step
    /\ UNCHANGED <<fuzzy, diff, tests, pc, idx, calls, timeout, tally, token, log, summary, outputs,
                   caught, failureSignalled>>

(* a chunk of the awaited child arrives on stdout *)
DataStdout ==
    /\ pc \in {"setup", "run"}
    /\ current.stdout # <<>>
    /\ calls' = settle(onStdout(current))
    /\ UNCHANGED <<fuzzy, diff, tests, pc, idx, clock, timeout, tally, token, log, summary, outputs,
                   caught, failureSignalled>>

(* a chunk of the awaited child arrives on stderr *)
DataStderr ==
    /\ pc \in {"setup", "run"}
    /\ current.stderr # <<>>
    /\ calls' = settle(onStderr(current))
    /\ UNCHANGED <<fuzzy, diff, tests, pc, idx, clock, timeout, tally, token, log, summary, outputs,
                   caught, failureSignalled>>

(* What runs once a callback has left the awaited call as c: nothing while *)
(* the promise is pending; when it is resolved, run() goes on after the    *)
(* setup (the run command is spawned with what is left of the timeout) or  *)
(* runCommand() goes on after the run command (the output is compared);    *)
(* when it is rejected, the catch block of runSetup or runCommand throws    *)
(* the error again and the catch block of the loop takes it.               *)
awaited(c) ==
    IF c.settled = "pending"
    THEN /\ calls' = settle(c)
         /\ UNCHANGED <<pc, idx, timeout, tally, log, summary, caught>>
    ELSE IF c.settled = "resolved" /\ c.phase = "setup"
    THEN /\ timeout' = timeout - clock
         /\ calls' = Append(settle(c),
                            waitForExit(idx, "run", tests[idx].run, timeout - clock, clock))
         /\ pc' = "run"
         /\ UNCHANGED <<idx, tally, log, summary, caught>>
    ELSE /\ calls' = settle(c)
         /\ LET e == IF c.settled = "resolved"
                     THEN runCommandThrows(tests[idx], c.output)
                     ELSE rethrow(c.output, c.reason)
            IN  IF e = NoError THEN testPassed(c.output) ELSE testFailed(e)
         /\ pc' = "loop"
         /\ idx' = idx + 1
         /\ UNCHANGED timeout

(* a timer that is armed fires: the timer of the awaited call when its     *)
(* delay has passed, or a timer that was left armed by a call that has     *)
(* settled (how long ago a call of an earlier test was made is not kept)   *)
TimerFires ==
    /\ \E k \in DOMAIN calls :
        /\ calls[k].timer = "armed"
        /\ (calls[k].test = idx /\ pc \in {"setup", "run"}) => clock >= calls[k].deadline
        /\ IF k = Len(calls) /\ pc \in {"setup", "run"}
           THEN awaited(onTimeout(calls[k]))
           ELSE /\ calls' = [calls EXCEPT ![k] = onTimeout(calls[k])]
                /\ UNCHANGED <<pc, idx, timeout, tally, log, summary, caught>>
    /\ UNCHANGED <<fuzzy, diff, tests, clock, token, outputs, failureSignalled>>

(* the setup child exits *)
SetupExit ==
    /\ pc = "setup"
    /\ current.exit = "pending"
    /\ awaited(onExit(current))
    /\ UNCHANGED <<fuzzy, diff, tests, clock, token, outputs, failureSignalled>>

(* the run child exits *)
RunExit ==
    /\ pc = "run"
    /\ current.exit = "pending"
    /\ awaited(onExit(current))
    /\ UNCHANGED <<fuzzy, diff, tests, clock, token, outputs, failureSignalled>>

(* the awaited child emits 'error' *)
ErrorEvent ==
    /\ pc \in {"setup", "run"}
    /\ current.error = "pending"
    /\ awaited(onError(current))
    /\ UNCHANGED <<fuzzy, diff, tests, clock, token, outputs, failureSignalled>>

(* the 'exit' event of a child whose call has settled already *)
LateExit ==
    /\ \E k \in DOMAIN calls :
        /\ calls[k].settled # "pending"
        /\ calls[k].exit = "pending"
        /\ calls' = [calls EXCEPT ![k] = onExit(calls[k])]
    /\ UNCHANGED <<fuzzy, diff, tests, pc, idx, clock, timeout, tally, token, log, summary, outputs,
                   caught, failureSignalled>>

(* after the loop: the verdict, the extra credit and the summary, up to    *)
(* `await setCheckRunOutput(text, 'Summary')`                              *)
Summarize ==
    /\ loopIsOver
    /\ LET text == <<passed, numtests, passing, failing>> IN
        /\ log' = log \o << <<IF failed THEN "At least one test failed" ELSE "All tests passed", "">> >>
                      \o (IF points > availablePoints
                          THEN << <<"extra credit", points - availablePoints>> >> ELSE <<>>)
                      \o << <<"Tests Passed", text>> >>
        /\ summary' = summary \o << <<"addRaw", "Test Summary", text>>, <<"write">> >>
        /\ outputs' = Append(outputs, <<"setCheckRunOutput", "Summary", text>>)
    /\ pc' = "points"
    /\ UNCHANGED <<fuzzy, diff, tests, idx, clock, calls, timeout, tally, token, caught, failureSignalled>>

(* the number of points: `Points` is earned/available when a test has      *)
(* points, else passed/total                                               *)
ReportPoints ==
    /\ pc = "points"
    /\ LET score == IF hasPoints THEN <<points, availablePoints>> ELSE <<passed, numtests>> IN
        /\ log' = IF hasPoints THEN Append(log, <<"Points", score>>) ELSE log
        /\ outputs' = outputs \o << <<"setOutput", "Points", score>>,
                                    <<"setCheckRunOutput", "complete", score>> >>
    /\ pc' = "done"
    /\ UNCHANGED <<fuzzy, diff, tests, idx, clock, calls, timeout, tally, token, summary, caught,
                   failureSignalled>>

Next ==
    \/ BeginTest
    \/ Tick
    \/ DataStdout
    \/ DataStderr
    \/ TimerFires
    \/ SetupExit
    \/ RunExit
    \/ ErrorEvent
    \/ LateExit
    \/ Summarize
    \/ ReportPoints

Spec == Init /\ [][Next]_vars

----------------------------------------------------------------------------
(* fuzzySearch(input, toFind), one step of Array.prototype.reduce at a time *)

(* runAll is not running *)
Idle ==
    /\ tests = <<>>
    /\ pc = "done"
    /\ idx = 1
    /\ clock = 0
    /\ calls = <<>>
    /\ timeout = 0
    /\ points = 0
    /\ availablePoints = 0
    /\ passed = 0
    /\ numtests = 0
    /\ hasPoints = FALSE
    /\ failed = FALSE
    /\ passing = <<>>
    /\ failing = <<>>
    /\ token = 0
    /\ log = <<>>
    /\ summary = <<>>
    /\ outputs = <<>>
    /\ caught = <<>>
    /\ failureSignalled = FALSE

FuzzyInit ==
    /\ \E io \in FuzzyInputs :
          fuzzy = [NoFuzzy EXCEPT !.pc = "called", !.input = io[1], !.toFind = io[2]]
    /\ diff = NoDiff
    /\ Idle

(* the windows and firstDistance *)
FuzzyWindows ==
    /\ fuzzy.pc = "called"
    /\ LET windows == toWindows(collapse(fuzzy.input), Len(fuzzy.toFind))
           first   == jaroWinklerSimilarity(windows[1], fuzzy.toFind)
       IN  fuzzy' = [fuzzy EXCEPT !.pc = "reduce", !.windows = windows, !.index = 1,
                                  !.prev = [index |-> 1, score |-> first],
                                  !.curr = windows[1], !.score = first]
    /\ UNCHANGED <<diff, tests, pc, idx, clock, calls, timeout, tally, token, log, summary,
                   outputs, caught, failureSignalled>>

(* one call of the reduce callback *)
FuzzyReduce ==
    /\ fuzzy.pc = "reduce"
    /\ fuzzy.index <= Len(fuzzy.windows)
    /\ LET curr  == fuzzy.windows[fuzzy.index]
           score == jaroWinklerSimilarity(curr, fuzzy.toFind)
       IN  fuzzy' = [fuzzy EXCEPT !.prev = closer(fuzzy.prev, fuzzy.index, score),
                                  !.index = @ + 1, !.curr = curr, !.score = score]
    /\ UNCHANGED <<diff, tests, pc, idx, clock, calls, timeout, tally, token, log, summary,
                   outputs, caught, failureSignalled>>

(* return windows[closestIndex] *)
FuzzyReturn ==
    /\ fuzzy.pc = "reduce"
    /\ fuzzy.index > Len(fuzzy.windows)
    /\ fuzzy' = [fuzzy EXCEPT !.pc = "returned", !.result = fuzzy.windows[fuzzy.prev.index]]
    /\ UNCHANGED <<diff, tests, pc, idx, clock, calls, timeout, tally, token, log, summary,
                   outputs, caught, failureSignalled>>

(* runCommand calls includedDiffMessage(actual, expected) with normalized   *)
(* texts of which the second is not part of the first                      *)
includedFailed(actual, expected) ==
    /\ actual = normalizeLineEndings(actual)
    /\ expected = normalizeLineEndings(expected)
    /\ ~includes(actual, expected)

(* includedDiffMessage after its call of fuzzySearch has returned: the     *)
(* offset and the line of the closest match                                *)
IncludedDiff ==
    /\ fuzzy.pc = "returned"
    /\ includedFailed(fuzzy.input, fuzzy.toFind)
    /\ LET actualLines  == splitLines(fuzzy.input)
           closestIndex == indexOf(strip(fuzzy.input), fuzzy.result)
       IN  fuzzy' = [fuzzy EXCEPT !.pc = "reported", !.closestIndex = closestIndex,
                                  !.currLine = lineOf(actualLines, closestIndex, 0, 1)]
    /\ UNCHANGED <<diff, tests, pc, idx, clock, calls, timeout, tally, token, log, summary,
                   outputs, caught, failureSignalled>>

FuzzyNext ==
    \/ FuzzyWindows
    \/ FuzzyReduce
    \/ FuzzyReturn
    \/ IncludedDiff

FuzzySpec == FuzzyInit /\ [][FuzzyNext]_vars

----------------------------------------------------------------------------
(* the exact comparison of runCommand, for an output and an expected text  *)

DiffInit ==
    /\ \E o \in DiffTexts, e \in DiffTexts :
          diff = [NoDiff EXCEPT !.pc = "called", !.output = o, !.expected = e]
    /\ fuzzy = NoFuzzy
    /\ Idle

(* case 'exact': the normalized texts are equal *)
ExactEqual ==
    /\ diff.pc = "called"
    /\ normalizeLineEndings(diff.output) = normalizeLineEndings(diff.expected)
    /\ diff' = [diff EXCEPT !.pc = "equal"]
    /\ UNCHANGED <<fuzzy, tests, pc, idx, clock, calls, timeout, tally, token, log, summary,
                   outputs, caught, failureSignalled>>

(* case 'exact': the normalized texts differ and exactDiffMessage makes    *)
(* the message of the TestError                                            *)
ExactDiff ==
    /\ diff.pc = "called"
    /\ normalizeLineEndings(diff.output) # normalizeLineEndings(diff.expected)
    /\ diff' = [diff EXCEPT !.pc = "thrown",
                            !.message = exactDiffMessage(normalizeLineEndings(diff.output),
                                                         normalizeLineEndings(diff.expected))]
    /\ UNCHANGED <<fuzzy, tests, pc, idx, clock, calls, timeout, tally, token, log, summary,
                   outputs, caught, failureSignalled>>

DiffNext ==
    \/ ExactEqual
    \/ ExactDiff

DiffSpec == DiffInit /\ [][DiffNext]_vars

----------------------------------------------------------------------------
(* Properties *)

Range(seq) == {seq[k] : k \in DOMAIN seq}

(* the tests whose loop iteration is over *)
Finished == 1..(idx - 1)

Passed(i) == tests[i].name \in Range(passing)
Failed(i) == tests[i].name \in Range(failing)

SetupCalls(i) == {k \in DOMAIN calls : calls[k].test = i /\ calls[k].phase = "setup"}
RunCalls(i)   == {k \in DOMAIN calls : calls[k].test = i /\ calls[k].phase = "run"}

(* the error the catch block of the loop received for test i *)
CaughtFor(i) == {caught[k].error : k \in {j \in DOMAIN caught : caught[j].test = i}}

(* the run command of test i has exited with code 0 in time and the test   *)
(* expects something *)
Compared(i) ==
    /\ i \in Finished
    /\ \E k \in RunCalls(i) : calls[k].settled = "resolved"
    /\ (tests[i].input # <<>> \/ tests[i].output # <<>>)

ActualOf(i) == normalizeLineEndings(calls[CHOOSE k \in RunCalls(i) : TRUE].output)
ExpectedOf(i) == normalizeLineEndings(tests[i].output)

(* C1: once the run command has exited with code 0 and input or output is  *)
(* not empty, an exact test passes iff the normalized actual output equals *)
(* the normalized expected output, and a test whose comparison is neither  *)
(* exact nor regex passes iff the normalized actual output contains the    *)
(* normalized expected output; the whole output "Hello world" against      *)
(* "Hello" fails in exact mode and passes in included mode.                *)
C1_Comparison ==
    \A i \in DOMAIN tests :
        Compared(i) =>
            /\ Passed(i) # Failed(i)
            /\ tests[i].comparison = "exact" => (Passed(i) <=> ActualOf(i) = ExpectedOf(i))
            /\ tests[i].comparison \notin {"exact", "regex"} =>
                   (Passed(i) <=> includes(ActualOf(i), ExpectedOf(i)))
            /\ (tests[i].output = Hello
                /\ calls[CHOOSE k \in RunCalls(i) : TRUE].output = HelloWorld \o <<LF>>) =>
                   /\ tests[i].comparison = "exact" => Failed(i)
                   /\ tests[i].comparison = "included" => Passed(i)

C1_Witness ==
    /\ Len(tests) = 2 /\ idx = 3
    /\ tests[1].comparison = "exact" /\ tests[2].comparison = "included"
    /\ tests[1].output = Hello /\ tests[2].output = Hello
    /\ Compared(1) /\ Compared(2)
    /\ calls[1].output = HelloWorld \o <<LF>> /\ calls[2].output = HelloWorld \o <<LF>>
    /\ Failed(1) /\ Passed(2)

(* C2: a test is passed only if its run command, and its setup command     *)
(* when it has one, exited with code 0 before the timer fired; an exit     *)
(* with another code or by a signal, not timed out, fails the call with an *)
(* error carrying the code, the signal and the output buffered so far, and *)
(* the test fails with that error, whatever the output.                    *)
C2_ExitCode ==
    /\ \A i \in Finished :
        Passed(i) =>
            /\ \E k \in RunCalls(i) :
                  calls[k].settled = "resolved" /\ calls[k].code = 0 /\ ~calls[k].timedOut
                  /\ calls[k].exit = "delivered"
            /\ tests[i].setup # "" =>
                  \E k \in SetupCalls(i) :
                      calls[k].settled = "resolved" /\ calls[k].code = 0 /\ ~calls[k].timedOut
                      /\ calls[k].exit = "delivered"
    /\ \A k \in DOMAIN calls :
        (calls[k].exit = "delivered" /\ ~calls[k].timedOut /\ calls[k].code # 0) =>
            /\ calls[k].settled = "rejected"
            /\ calls[k].reason = ExitError(calls[k].code, calls[k].signal)
            /\ Failed(calls[k].test) /\ ~Passed(calls[k].test)
            /\ CaughtFor(calls[k].test) =
                   {[ExitError(calls[k].code, calls[k].signal)
                        EXCEPT !.output = calls[k].output, !.wrapped = TRUE]}

(* the command printed what the test expects and then exited with code 1 *)
C2_Witness ==
    \E k \in DOMAIN calls :
        /\ calls[k].phase = "run" /\ calls[k].exit = "delivered" /\ calls[k].code = 1
        /\ tests[calls[k].test].comparison = "included"
        /\ tests[calls[k].test].output = Hello
        /\ includes(normalizeLineEndings(calls[k].output), Hello)
        /\ Failed(calls[k].test)

(* C3: when the timer of a waitForExit call fires before the exit event,   *)
(* the child is killed and the call fails with a TestTimeoutError that     *)
(* carries the output buffered so far; no later exit or error event        *)
(* changes that, and a call that has settled stays as it settled.          *)
C3_TimedOut ==
    \A k \in DOMAIN calls :
        calls[k].timer = "fired" =>
            /\ calls[k].killed /\ calls[k].timedOut
            /\ calls[k].settled = "rejected"
            /\ calls[k].reason = TestTimeoutError(calls[k].timeout)
            /\ CaughtFor(calls[k].test) =
                   {[TestTimeoutError(calls[k].timeout)
                        EXCEPT !.output = calls[k].output, !.wrapped = TRUE]}
            /\ Failed(calls[k].test) /\ ~Passed(calls[k].test)

C3_SettlesOnce ==
    \A k \in DOMAIN calls :
        calls[k].settled # "pending" =>
            /\ k \in DOMAIN calls'
            /\ calls'[k].settled = calls[k].settled
            /\ calls'[k].reason = calls[k].reason
            /\ calls[k].timer = "fired" =>
                  /\ CaughtFor(calls[k].test)' = CaughtFor(calls[k].test)
                  /\ Failed(calls[k].test)' /\ ~Passed(calls[k].test)'

SetupFailed(k) ==
    /\ calls[k].phase = "setup"
    /\ \/ calls[k].timer = "fired"
       \/ calls[k].exit = "delivered" /\ calls[k].code # 0
       \/ calls[k].error = "delivered"

StartedNames ==
    LET lines == SelectSeq(log, LAMBDA l : l[1] = "name")
    IN  [k \in DOMAIN lines |-> lines[k][2]]

(* position of a name in the test list *)
PositionOf(name) == CHOOSE i \in DOMAIN tests : tests[i].name = name

InListOrder(names) ==
    \A a, b \in DOMAIN names : a < b => PositionOf(names[a]) < PositionOf(names[b])

(* C5: runAll runs every test of the list exactly once and in list order,  *)
(* whatever the outcome of the earlier tests: after a failure the loop     *)
(* goes on with the next test, the summary comes after the last test only, *)
(* and the passing and the failing names are each in list order.           *)
C5_EveryTestOnce ==
    /\ numtests = (IF pc \in {"setup", "run"} THEN idx ELSE idx - 1)
    /\ StartedNames = [k \in 1..numtests |-> tests[k].name]
    /\ \A j, k \in DOMAIN calls : j < k =>
          \/ calls[j].test < calls[k].test
          \/ calls[j].test = calls[k].test /\ calls[j].phase = "setup" /\ calls[k].phase = "run"
    /\ \A i \in Finished : Passed(i) # Failed(i)
    /\ \A i \in Finished : SetupCalls(i) \cup RunCalls(i) # {}
    /\ Len(passing) + Len(failing) = Cardinality(Finished)
    /\ InListOrder(passing) /\ InListOrder(failing)
    /\ (pc = "loop" /\ idx <= Len(tests)) => ENABLED BeginTest
    /\ pc \in {"points", "done"} => numtests = Len(tests) /\ Finished = DOMAIN tests

(* the first and the second test failed and the third test ran and passed *)
C5_Witness ==
    /\ pc = "done" /\ Len(tests) = 3
    /\ Failed(1) /\ Failed(2) /\ Passed(3)
    /\ failing = <<tests[1].name, tests[2].name>>

(* C6: the failed flag is true iff a test not marked extra has failed so   *)
(* far; the failure of an extra test does not set it; once set it stays.   *)
C6_Flag == failed <=> \E i \in Finished : ~tests[i].extra /\ Failed(i)

C6_FailedFlag == [](C6_Flag) /\ [][failed => failed']_vars

(* an extra test failed and the run ended with the flag clear *)
C6_Witness ==
    /\ pc = "done" /\ ~failed
    /\ \E i \in DOMAIN tests : tests[i].extra /\ Failed(i)
    /\ \E i \in DOMAIN tests : ~tests[i].extra /\ Passed(i)

RECURSIVE SumOver(_, _)
(* the sum of f[i] over the set S *)
SumOver(f, S) ==
    IF S = {} THEN 0
    ELSE LET i == CHOOSE j \in S : TRUE IN f[i] + SumOver(f, S \ {i})

DeclaredPoints == [i \in DOMAIN tests |-> IF "points" \in tests[i].declared THEN tests[i].points ELSE 0]

ExtraCreditLines == {k \in DOMAIN log : log[k][1] = "extra credit"}

(* C7: after runAll availablePoints is the sum of the points of the tests  *)
(* not marked extra, earned points the sum of the points of the passed     *)
(* tests, and extra credit is reported iff earned > available, as their    *)
(* difference.  Tests worth 10/20/30 with the first failing: 60 available, *)
(* 50 earned, failed; with a passing extra test worth 15: 65 earned and 5  *)
(* extra credit.                                                           *)
C7_Points ==
    pc \in {"points", "done"} =>
        /\ availablePoints = SumOver(DeclaredPoints, {i \in DOMAIN tests : ~tests[i].extra})
        /\ points = SumOver(DeclaredPoints, {i \in DOMAIN tests : Passed(i)})
        /\ (ExtraCreditLines # {}) <=> (points > availablePoints)
        /\ \A k \in ExtraCreditLines : log[k][2] = points - availablePoints
        /\ Cardinality(ExtraCreditLines) <= 1
        /\ (/\ Len(tests) >= 3
            /\ \A i \in 1..3 : ~tests[i].extra /\ DeclaredPoints[i] = 10 * i
            /\ Failed(1) /\ Passed(2) /\ Passed(3)) =>
               /\ failed
               /\ Len(tests) = 3 => availablePoints = 60 /\ points = 50
               /\ (Len(tests) = 4 /\ tests[4].extra /\ DeclaredPoints[4] = 15 /\ Passed(4)) =>
                      /\ availablePoints = 60 /\ points = 65
                      /\ \E k \in ExtraCreditLines : log[k][2] = 5

C7_Witness ==
    /\ pc = "done" /\ Len(tests) = 4
    /\ \A i \in 1..3 : ~tests[i].extra /\ DeclaredPoints[i] = 10 * i
    /\ tests[4].extra /\ DeclaredPoints[4] = 15
    /\ Failed(1) /\ Passed(2) /\ Passed(3) /\ Passed(4)
    /\ points = 65 /\ availablePoints = 60 /\ failed
    /\ \E k \in ExtraCreditLines : log[k][2] = 5

(* the scores given to core.setOutput('Points', ...) *)
ReportedScores == {outputs[k][3] : k \in {j \in DOMAIN outputs : outputs[j][1] = "setOutput"}}

(* C8: the final score is reported once, as earned/available points if any *)
(* test of the list declares a points value and as passed/total otherwise. *)
C8_ScoreMode ==
    pc = "done" =>
        ReportedScores =
            {IF \E i \in DOMAIN tests : "points" \in tests[i].declared
             THEN <<points, availablePoints>>
             ELSE <<passed, numtests>>}

(* C9: when runAll ends with the failed flag set the run is marked failed  *)
(* for the caller, and it is not marked failed when the flag is clear.     *)
C9_FailureSignalled == pc = "done" => (failureSignalled <=> failed)

(* the text of the code block that follows the 'Passed' heading of a test *)
PassedBlocks(name) ==
    {summary[k + 1][3] : k \in {j \in 1..(Len(summary) - 1) :
                                    /\ summary[j][1] = "addRaw"
                                    /\ summary[j][2] = "Passed"
                                    /\ summary[j][3] = name
                                    /\ summary[j + 1][1] = "addCodeBlock"
                                    /\ summary[j + 1][2] = "result"}}

(* the errors whose message the log shows *)
LoggedErrors == {log[k][2] : k \in {j \in DOMAIN log : log[j][1] = "errors"}}

(* C10: for every test runAll emits the outcome, with the captured output  *)
(* when the test passed and the message of the failure when it failed,     *)
(* extra tests included.                                                   *)
C10_EveryOutcomeEmitted ==
    \A i \in Finished :
        /\ Passed(i) =>
              \E k \in RunCalls(i) :
                  PassedBlocks(tests[i].name) =
                      {IF calls[k].output = <<>> THEN NoOutputText ELSE calls[k].output}
        /\ Failed(i) => CaughtFor(i) # {} /\ CaughtFor(i) \subseteq LoggedErrors

(* C11: a test with neither input nor expected output passes as soon as    *)
(* its run command has exited with code 0 in time, whatever the command    *)
(* wrote and whatever the comparison mode: nothing is compared.            *)
C11_NothingExpected ==
    \A i \in Finished :
        (/\ tests[i].input = <<>>
         /\ tests[i].output = <<>>
         /\ \E k \in RunCalls(i) : calls[k].settled = "resolved") =>
            Passed(i) /\ ~Failed(i) /\ CaughtFor(i) = {}

(* an exact test that expects nothing passed though its command wrote text *)
C11_Witness ==
    /\ 1 \in Finished
    /\ tests[1].comparison = "exact" /\ tests[1].input = <<>> /\ tests[1].output = <<>>
    /\ calls[1].output = HelloWorld \o <<LF>>
    /\ Passed(1)

(* C12: a regex test passes iff the pattern, taken from `output` as it is  *)
(* written, matches somewhere in the normalized actual output; a failure   *)
(* is a regex error that carries the pattern as written, never the error   *)
(* of an equality or a containment check.  ^\d+$ passes for the output 42  *)
(* and fails for 42a.                                                      *)
C12_Regex ==
    \A i \in DOMAIN tests :
        (Compared(i) /\ tests[i].comparison = "regex") =>
            /\ Passed(i) # Failed(i)
            /\ Passed(i) <=> (/\ regexValid(tests[i].output)
                              /\ regexMatch(ActualOf(i), tests[i].output))
            /\ \A e \in CaughtFor(i) :
                  /\ e.cls \in {"TestOutputError", "SyntaxError"}
                  /\ e.expected = tests[i].output
            /\ tests[i].output = NumberPattern =>
                  /\ ActualOf(i) = FortyTwo => Passed(i)
                  /\ ActualOf(i) = FortyTwoA => Failed(i)

(* ^\d+$ was matched against the output of `echo 42` *)
C12_Witness ==
    /\ Compared(1)
    /\ tests[1].comparison = "regex" /\ tests[1].output = NumberPattern
    /\ calls[1].output = FortyTwo \o <<LF>>
    /\ Passed(1)

(* C13: the timer of the first command of a test (the setup, or the run    *)
(* command of a test without setup) is armed with timeout * 60000 ms for a *)
(* positive timeout and with 60000 ms for a timeout that is 0 or absent;   *)
(* the 30000 ms fallback is not what such a test gets.                     *)
C13_Budget ==
    \A k \in DOMAIN calls :
        LET test == tests[calls[k].test] IN
        (calls[k].phase = "setup" \/ test.setup = "") =>
            /\ calls[k].timeout = (IF test.timeout > 0 THEN test.timeout * 60000 ELSE 60000)
            /\ calls[k].deadline = calls[k].timeout

(* a test that declares timeout 0 timed out after one minute *)
C13_Witness ==
    /\ Len(calls) = 1
    /\ "timeout" \in tests[1].declared /\ tests[1].timeout = 0
    /\ calls[1].timer = "fired" /\ calls[1].timeout = 60000 /\ clock = 60000

(* the waitForExit calls whose promise is pending *)
Pending == {k \in DOMAIN calls : calls[k].settled = "pending"}

(* C14: at most one waitForExit call is pending, and it is the last call,  *)
(* made for the test of the current iteration; a run command is spawned    *)
(* only after the setup of its test has resolved, and a command of a test  *)
(* only after every earlier test has passed or failed.                     *)
C14_Sequential ==
    /\ Cardinality(Pending) <= 1
    /\ \A k \in Pending :
          k = Len(calls) /\ pc = calls[k].phase /\ calls[k].test = idx
    /\ pc \in {"setup", "run"} => Pending = {Len(calls)}
    /\ \A k \in DOMAIN calls :
          /\ (calls[k].phase = "run" /\ tests[calls[k].test].setup # "") =>
                \E j \in 1..(k - 1) :
                    /\ calls[j].test = calls[k].test /\ calls[j].phase = "setup"
                    /\ calls[j].settled = "resolved"
          /\ \A i \in 1..(calls[k].test - 1) : Passed(i) # Failed(i)

(* the setup and the run command of the first test are over and the run    *)
(* command of the second test is being awaited                             *)
C14_Witness ==
    /\ Len(calls) = 3
    /\ calls[1].phase = "setup" /\ calls[2].phase = "run" /\ calls[2].test = 1
    /\ calls[3].test = 2 /\ calls[3].settled = "pending" /\ calls[3].output # <<>>

(* the chunks of a stream of call k that have been delivered *)
DeliveredStdout(k) ==
    LET all == Behaviour(calls[k].cmd).stdout IN SubSeq(all, 1, Len(all) - Len(calls[k].stdout))

DeliveredStderr(k) ==
    LET all == Behaviour(calls[k].cmd).stderr IN SubSeq(all, 1, Len(all) - Len(calls[k].stderr))

WroteHelloToStderr(k) ==
    /\ calls[k].cmd = "echo Hello >&2; echo world"
    /\ calls[k].phase = "run" /\ calls[k].settled = "resolved"
    /\ calls[k].test \in Finished
    /\ DeliveredStderr(k) = <<Hello \o <<LF>>>>

(* C15: every chunk delivered on stderr is in the output buffer, which     *)
(* holds the delivered stdout and stderr chunks and nothing else, in the   *)
(* order of their arrival, and that buffer is what is matched: a command   *)
(* that writes Hello to stderr passes an included and a regex test for     *)
(* Hello, and an exact test for the two lines iff stderr arrived first.    *)
C15_Stderr ==
    \A k \in DOMAIN calls :
        /\ \A n \in DOMAIN DeliveredStderr(k) : includes(calls[k].output, DeliveredStderr(k)[n])
        /\ Len(calls[k].output) =
               Len(concat(DeliveredStdout(k))) + Len(concat(DeliveredStderr(k)))
        /\ WroteHelloToStderr(k) =>
              LET i == calls[k].test IN
              /\ (tests[i].output = Hello /\ tests[i].comparison # "exact") => Passed(i)
              /\ (tests[i].output = Hello \o <<LF>> \o World /\ tests[i].comparison = "exact") =>
                    (Passed(i) <=> calls[k].output = Hello \o <<LF>> \o World \o <<LF>>)

(* the line on stderr arrived before the line on stdout and the exact test *)
(* for the two lines passed                                                *)
C15_Witness ==
    /\ Len(calls) = 1
    /\ WroteHelloToStderr(1)
    /\ tests[1].comparison = "exact" /\ tests[1].output = Hello \o <<LF>> \o World
    /\ calls[1].output = Hello \o <<LF>> \o World \o <<LF>>
    /\ Passed(1)

(* the tests for which run() threw: the catch block of the loop was entered *)
Threw == {i \in DOMAIN tests : CaughtFor(i) # {}}

(* the names of the tests of S, in list order *)
NamesOf(S) ==
    LET ix == SelectSeq([k \in 1..Len(tests) |-> k], LAMBDA k : k \in S)
    IN  [j \in DOMAIN ix |-> tests[ix[j]].name]

C16_OneIffEqual ==
    fuzzy.pc \in {"reduce", "returned"} =>
        (isOne(fuzzy.score) <=> fuzzy.curr = fuzzy.toFind)

(* the score of window j of the collapsed haystack h against the needle *)
WindowScore(h, j) ==
    jaroWinklerSimilarity(SubSeq(h, j, j + Len(fuzzy.toFind) - 1), fuzzy.toFind)

(* C17: fuzzySearch returns the whole haystack, its line breaks replaced   *)
(* by one space each, when the needle is longer than that; otherwise the   *)
(* leftmost of the windows of the needle's length whose score against the  *)
(* needle is the highest.                                                  *)
C17_ClosestWindow ==
    fuzzy.pc = "returned" =>
        LET h == collapse(fuzzy.input)
            n == Len(fuzzy.toFind)
        IN  /\ \A k \in DOMAIN h : h[k] # LF
            /\ Len(h) = Len(fuzzy.input)
                        - Cardinality({k \in 1..(Len(fuzzy.input) - 1) :
                                          fuzzy.input[k] = CR /\ fuzzy.input[k + 1] = LF})
            /\ IF n > Len(h) THEN fuzzy.result = h
               ELSE /\ Len(fuzzy.result) = n
                    /\ \E i \in 1..(Len(h) - n + 1) :
                          /\ fuzzy.result = SubSeq(h, i, i + n - 1)
                          /\ \A j \in 1..(Len(h) - n + 1) : ~less(WindowScore(h, i), WindowScore(h, j))
                          /\ \A j \in 1..(i - 1) : less(WindowScore(h, j), WindowScore(h, i))

(* the haystack has a line break, two windows share the highest score and  *)
(* the first of them was returned                                          *)
C17_Witness ==
    /\ fuzzy.pc = "returned"
    /\ \E k \in DOMAIN fuzzy.input : fuzzy.input[k] = LF
    /\ Len(fuzzy.toFind) = 2
    /\ Len(fuzzy.windows) >= 3
    /\ fuzzy.prev.score[1] > 0
    /\ \E j \in (fuzzy.prev.index + 1)..Len(fuzzy.windows) :
          /\ ~less(jaroWinklerSimilarity(fuzzy.windows[j], fuzzy.toFind), fuzzy.prev.score)
          /\ fuzzy.windows[j] # fuzzy.result
    /\ fuzzy.result = fuzzy.windows[fuzzy.prev.index]

(* the words of a text: its longest pieces without a blank *)
Words(h) ==
    {SubSeq(h, a, b) : <<a, b>> \in
        {ab \in (DOMAIN h) \X (DOMAIN h) :
            /\ ab[1] <= ab[2]
            /\ \A k \in ab[1]..ab[2] : h[k] # " "
            /\ (ab[1] = 1 \/ h[ab[1] - 1] = " ")
            /\ (ab[2] = Len(h) \/ h[ab[2] + 1] = " ")}}

(* n is w with two neighbouring characters swapped, the first one kept *)
MisspellingOf(n, w) ==
    /\ Len(n) = Len(w) /\ n # w
    /\ \E k \in 2..(Len(w) - 1) :
          n = [j \in DOMAIN w |-> IF j = k THEN w[k + 1] ELSE IF j = k + 1 THEN w[k] ELSE w[j]]

(* C18: when the needle is a word of the haystack with two neighbouring    *)
(* characters swapped and the first character kept, fuzzySearch returns    *)
(* that word; for "The quick brown fox jumped over the lazy dog." and the  *)
(* needle "fxo" it returns "fox".                                          *)
C18_FindsMisspelledWord ==
    fuzzy.pc = "returned" =>
        /\ \A w \in Words(collapse(fuzzy.input)) :
              MisspellingOf(fuzzy.toFind, w) => fuzzy.result = w
        /\ (fuzzy.input = Sentence /\ fuzzy.toFind = Fxo) => fuzzy.result = Fox

(* the 'exit' or the 'error' event of call k has been delivered *)
EventDelivered(k) == calls[k].exit = "delivered" \/ calls[k].error = "delivered"

(* C21: when the exit or the error event of a waitForExit call is          *)
(* delivered before its timer has fired, the timer is cancelled: in every  *)
(* later state the timer is cleared, not fired, kill has not been called   *)
(* on the child and the call has settled with something else than a        *)
(* timeout error; the timeout callback has run for a call whose event has  *)
(* been delivered only when the call had timed out before.                 *)
C21_TimerCancelled ==
    \A k \in DOMAIN calls :
        EventDelivered(k) =>
            /\ calls[k].settled # "pending"
            /\ ~calls[k].timedOut =>
                  /\ calls[k].timer = "cleared"
                  /\ ~calls[k].killed
                  /\ calls[k].reason.cls # "TestTimeoutError"
            /\ calls[k].timedOut =>
                  /\ calls[k].timer = "fired"
                  /\ calls[k].reason = TestTimeoutError(calls[k].timeout)

(* a setup exited before its timer fired, and the time the timer was armed *)
(* for has passed since                                                    *)
C21_Witness ==
    /\ Len(calls) = 2
    /\ calls[1].phase = "setup" /\ calls[1].exit = "delivered" /\ calls[1].settled = "resolved"
    /\ calls[1].timer = "cleared"
    /\ calls[2].test = 1
    /\ clock >= calls[1].deadline

(* when the timer of call k was armed, in ms since `start` of its run() *)
ArmedAt(k) == calls[k].deadline - timerDelay(calls[k].timeout)

(* C22: the timer of the run command is armed with the full budget minus   *)
(* the milliseconds spent in setup (0 without setup), which is never more  *)
(* than the full budget, and it fires no later than the full budget after  *)
(* the start of the test: setup and run together get no more than that.    *)
C22_RunBudget ==
    \A k \in DOMAIN calls :
        calls[k].phase = "run" =>
            LET test == tests[calls[k].test] IN
            /\ test.setup = "" => ArmedAt(k) = 0
            /\ test.setup # "" => ArmedAt(k) > 0 \/ calls[k - 1].phase = "setup"
            /\ calls[k].timeout = fullTimeout(test) - ArmedAt(k)
            /\ calls[k].timeout <= fullTimeout(test)
            /\ calls[k].deadline <= fullTimeout(test)

(* new RegExp(test.output) throws: the SyntaxError of the pattern parser *)
InvalidPattern(i) ==
    Error("SyntaxError", "invalid regular expression", <<>>, NoCode, NoSignal, 0, tests[i].output, <<>>)

(* C23: a regex test whose pattern is malformed fails: when its command    *)
(* has exited with code 0 in time the catch block of the loop receives the *)
(* SyntaxError of the pattern parser, as thrown, and nothing else; the     *)
(* name is in the failing list and not in the passing list, the failed     *)
(* flag is set if the test is not extra and stays clear if it is extra and *)
(* no other test has failed, and the loop goes on with the next test.      *)
C23_InvalidPattern ==
    \A i \in Finished :
        (tests[i].comparison = "regex" /\ ~regexValid(tests[i].output)) =>
            /\ Failed(i) /\ ~Passed(i)
            /\ Compared(i) => CaughtFor(i) = {InvalidPattern(i)}
            /\ ~tests[i].extra => failed
            /\ (tests[i].extra /\ \A j \in Finished \ {i} : Passed(j)) => ~failed
            /\ (pc = "loop" /\ idx <= Len(tests)) => ENABLED BeginTest
            /\ pc = "done" => numtests = Len(tests) /\ Len(passing) + Len(failing) = Len(tests)

(* an extra regex test with a malformed pattern failed, the test after it  *)
(* passed and the run ended with the failed flag clear                     *)
C23_Witness ==
    /\ pc = "done" /\ Len(tests) = 2
    /\ tests[1].comparison = "regex" /\ tests[1].output = BadPattern /\ tests[1].extra
    /\ Compared(1) /\ CaughtFor(1) = {InvalidPattern(1)}
    /\ failing = <<tests[1].name>> /\ passing = <<tests[2].name>>
    /\ ~failed

(* two scores are the same number *)
sameScore(a, b) == ~less(a, b) /\ ~less(b, a)

(* C24: the similarity of two strings of equal length does not depend on   *)
(* the order of the arguments: the score of every window of the needle's   *)
(* length against the needle is the score of the needle against the window.*)
C24_Symmetric ==
    (fuzzy.pc \in {"reduce", "returned"} /\ Len(fuzzy.curr) = Len(fuzzy.toFind)) =>
        sameScore(fuzzy.score, jaroWinklerSimilarity(fuzzy.toFind, fuzzy.curr))

(* a window and a needle of four letters or more of which a letter is      *)
(* matched with an equal letter at another position, and the matched       *)
(* letters of the two are not in the same order                            *)
C24_Witness ==
    /\ fuzzy.pc = "reduce"
    /\ Len(fuzzy.curr) = Len(fuzzy.toFind) /\ Len(fuzzy.curr) >= 4
    /\ fuzzy.curr # fuzzy.toFind
    /\ LET maxDist == (Len(fuzzy.curr) \div 2) - 1
           found == findMatches(fuzzy.curr, fuzzy.toFind, maxDist, 1, {}, {})
       IN  /\ \E i \in found.str1Matches : i \notin found.str2Matches
           /\ countTranspositions(fuzzy.curr, fuzzy.toFind, found.str1Matches,
                                  found.str2Matches, 1, 1) > 0

(* the length of the longest common prefix of two strings, 4 at most *)
commonPrefix(str1, str2) ==
    Cardinality({i \in 1..Min(Min(Len(str1), Len(str2)), 4) :
                    \A j \in 1..i : str1[j] = str2[j]})

(* C25: the score of a window that is not the needle and has a letter      *)
(* matched is base + prefixLen * 0.25 * (1 - base), where prefixLen is the *)
(* length of the longest common prefix of the window and the needle,       *)
(* capped at 4.                                                            *)
C25_PrefixBoost ==
    (/\ fuzzy.pc \in {"reduce", "returned"}
     /\ fuzzy.curr # fuzzy.toFind
     /\ jaro(fuzzy.curr, fuzzy.toFind)[1] > 0) =>
        sameScore(fuzzy.score,
                  boost(jaro(fuzzy.curr, fuzzy.toFind), commonPrefix(fuzzy.curr, fuzzy.toFind)))

(* the line breaks of the actual output before the window fuzzySearch      *)
(* returned; the texts includedDiffMessage gets have no \r\n, so a window  *)
(* starts at the same position in the output and in its collapsed copy     *)
BreaksBeforeMatch ==
    Cardinality({k \in 1..(fuzzy.prev.index - 1) : fuzzy.input[k] = LF})

(* C26: includedDiffMessage reports the 1-based number of the line of the  *)
(* actual output on which the closest match starts, and the offset of the  *)
(* match in the actual output, line endings not counted; also for a match  *)
(* that starts in the middle of a line or spans a line break.              *)
C26_LineOfClosest ==
    fuzzy.pc = "reported" =>
        /\ fuzzy.currLine = 1 + BreaksBeforeMatch
        /\ fuzzy.closestIndex = fuzzy.prev.index - 1 - BreaksBeforeMatch

(* C27: when the exact comparison fails and the expected and the actual    *)
(* text have the same number of lines, exactDiffMessage reports the lines  *)
(* in order as equal up to the first line that differs, reports that line  *)
(* as the mismatch and no line after it, with a marker of the length of    *)
(* the expected line that has ^ where the actual line has another          *)
(* character or none and _ elsewhere; there is such a line.                *)
C27_FirstMismatch ==
    (diff.pc = "thrown" /\ diff.message.linesExpected = diff.message.linesActual) =>
        LET report        == diff.message.report
            linesActual   == splitLines(normalizeLineEndings(diff.output))
            linesExpected == splitLines(normalizeLineEndings(diff.expected))
            last          == Len(report)
        IN  IF report = <<>> THEN FALSE
            ELSE /\ last <= Len(linesExpected)
                 /\ \A k \in 1..(last - 1) :
                       /\ report[k].kind = "same" /\ report[k].line = k - 1
                       /\ linesActual[k] = linesExpected[k]
                 /\ report[last].kind = "mismatch" /\ report[last].line = last - 1
                 /\ linesActual[last] # linesExpected[last]
                 /\ report[last].expected = linesExpected[last]
                 /\ report[last].actual = linesActual[last]
                 /\ Len(report[last].diff) = Len(linesExpected[last])
                 /\ \A j \in DOMAIN report[last].diff :
                       report[last].diff[j] =
                           (IF j > Len(linesActual[last]) \/ linesActual[last][j] # linesExpected[last][j]
                            THEN "^" ELSE "_")

(* the summary has the debuggex note for test i *)
Hinted(i) ==
    \E k \in DOMAIN summary :
        summary[k][1] = "addRaw" /\ summary[k][2] = "debuggex" /\ summary[k][3] = tests[i].name

(* the failure of test i is a regex comparison that did not match *)
RegexMismatch(i) == \E e \in CaughtFor(i) : e.cls = "TestOutputError"

(* C28: the debuggex hint is emitted for a test that has failed iff its    *)
(* failure is a regex comparison that did not match: never for a failed    *)
(* exact or included comparison, a timeout or a failed process.            *)
C28_DebuggexHint ==
    \A i \in Finished : Hinted(i) <=> RegexMismatch(i)

(* how often a name is in a list *)
Occurrences(name, list) == Cardinality({k \in DOMAIN list : list[k] = name})

(* list a is the beginning of list b *)
IsPrefix(a, b) == Len(a) <= Len(b) /\ SubSeq(b, 1, Len(a)) = a

(* the tests the loop has started *)
Started == 1..numtests

C29_Consistent ==
    /\ passed = Len(passing)
    /\ passed + Len(failing) = (IF pc \in {"setup", "run"} THEN numtests - 1 ELSE numtests)
    /\ \A i \in Finished :
          Occurrences(tests[i].name, passing) + Occurrences(tests[i].name, failing) = 1
    /\ pc \notin {"setup", "run"} => Finished = Started
    /\ SumOver(DeclaredPoints, {i \in Finished : Passed(i) /\ ~tests[i].extra}) <= availablePoints
    /\ points >= 0

C29_Grows ==
    /\ passed' >= passed /\ numtests' >= numtests
    /\ points' >= points /\ availablePoints' >= availablePoints
    /\ IsPrefix(passing, passing') /\ IsPrefix(failing, failing')

(* C29: the tally is consistent after every iteration of the loop and only *)
(* grows: passed is the length of the passing list, passed plus the length *)
(* of the failing list is the number of tests started, every started test  *)
(* is once in one of the two lists, the earned points never decrease and   *)
(* the points earned by tests that are not extra are at most the available *)
(* points.                                                                 *)
C29_Tally == [](C29_Consistent) /\ [][C29_Grows]_vars

(* after four iterations three tests have passed and one has failed, and   *)
(* the earned points are above the available points                        *)
C29_Witness ==
    /\ pc = "loop" /\ numtests = 4
    /\ passed = 3 /\ Len(failing) = 1
    /\ points = 65 /\ availablePoints = 60

(* the stop-commands and the resume markers of the log, in order *)
Markers == SelectSeq(log, LAMBDA l : l[1] \in {"stop-commands", "resume"})

(* the lines of the log that are not written between a stop-commands       *)
(* marker and its resume marker by the loop itself: the verdict, the       *)
(* summary and the points                                                  *)
AfterLoopLines ==
    {k \in DOMAIN log :
        log[k][1] \in {"At least one test failed", "All tests passed", "Tests Passed", "Points",
                       "extra credit"}}

(* C30: the markers of the log come in pairs, a stop-commands marker and   *)
(* after it the resume marker with the same token, one pair per test that  *)
(* has been started; the tokens of two tests differ; the stop-commands     *)
(* marker of a test is logged before a command of it is awaited, and its   *)
(* resume marker is logged when the test has passed or failed, so that     *)
(* processing is not stopped when the next test or the summary begins.     *)
C30_Markers ==
    LET m == Markers IN
    /\ \A k \in DOMAIN m :
          /\ m[k][1] = (IF k % 2 = 1 THEN "stop-commands" ELSE "resume")
          /\ k % 2 = 0 => m[k][2] = m[k - 1][2]
          /\ \A j \in 1..(k - 2) : m[j][2] # m[k][2]
    /\ Len(m) = (IF pc \in {"setup", "run"} THEN 2 * numtests - 1 ELSE 2 * numtests)
    /\ pc \in {"setup", "run"} => m[Len(m)] = <<"stop-commands", token>>
    /\ \A c \in DOMAIN calls : 2 * calls[c].test - 1 <= Len(m)
    /\ \A i \in Finished : 2 * i <= Len(m)
    /\ AfterLoopLines # {} => Len(m) = 2 * Len(tests)

(* a test passed, the next test failed, and the summary has been logged    *)
(* after the two pairs of markers                                          *)
C30_Witness ==
    /\ pc = "done" /\ Len(tests) = 2
    /\ Passed(1) /\ Failed(2)
    /\ Len(Markers) = 4
    /\ Markers[2] = <<"resume", Markers[1][2]>> /\ Markers[4] = <<"resume", token>>

----------------------------------------------------------------------------
(* the chunks call k's child wrote that no 'data' event had delivered when *)
(* the call settled                                                        *)
Undelivered(k) == concat(calls[k].stdout) \o concat(calls[k].stderr)

(* C31: when the run command exits with code 0, the text that is compared  *)
(* holds everything the child wrote to stdout and stderr: no chunk is left *)
(* to be delivered after the 'exit' event has resolved the wait.           *)
C31_OutputComplete ==
    \A k \in DOMAIN calls :
        (calls[k].phase = "run" /\ calls[k].settled = "resolved") =>
            /\ Undelivered(k) = <<>>
            /\ Len(calls[k].output) = Len(concat(Behaviour(calls[k].cmd).stdout))
                                        + Len(concat(Behaviour(calls[k].cmd).stderr))

----------------------------------------------------------------------------
(* the child of call k has ended: its 'exit' event has been emitted, or it *)
(* was never started, or it ends by itself and was not running any more    *)
(* when kill was called (kill leaves SIGTERM with a running child only)    *)
Terminated(k) ==
    \/ calls[k].exit = "delivered"
    \/ calls[k].error = "delivered"
    \/ calls[k].exit = "pending" /\ calls[k].signal # "SIGTERM"

(* a command of a test after the test of call k has been spawned *)
LaterSpawned(k) == \E j \in DOMAIN calls : calls[j].test > calls[k].test

(* C32: when a test has timed out, the child that was killed has ended     *)
(* before a command of a later test is spawned, and when runAll returns.   *)
C32_KilledBeforeNext ==
    \A k \in DOMAIN calls :
        (calls[k].timedOut /\ (LaterSpawned(k) \/ pc = "done")) => Terminated(k)

----------------------------------------------------------------------------
(* test i declares an input and no output, and its run command has exited  *)
(* with code 0 in time                                                     *)
InputOnly(i) ==
    /\ i \in Finished
    /\ tests[i].input # <<>> /\ tests[i].output = <<>>
    /\ \E k \in RunCalls(i) : calls[k].settled = "resolved"

(* C33: a test with an input and no expected output is compared against    *)
(* the empty text: unless the comparison is exact it passes whatever the   *)
(* command wrote, and an exact test passes iff the normalized output is    *)
(* empty.                                                                  *)
C33_InputOnly ==
    \A i \in Finished :
        InputOnly(i) =>
            /\ Passed(i) <=> ~Failed(i)
            /\ tests[i].comparison # "exact" => Passed(i)
            /\ tests[i].comparison = "exact" => (Passed(i) <=> ActualOf(i) = <<>>)
            /\ Failed(i) => \A e \in CaughtFor(i) : e.kind = "does not match" /\ e.expected = <<>>

(* a regex test with an input and no expected output passed for a command  *)
(* that wrote Hello                                                        *)
C33_Witness ==
    /\ InputOnly(1)
    /\ tests[1].comparison = "regex" /\ calls[1].output = Hello \o <<LF>>
    /\ Passed(1)

----------------------------------------------------------------------------
(* C34: whenever the setup step has succeeded, the timeout the run         *)
(* command's timer is armed with is strictly positive.                     *)
C34_PositiveTimeout ==
    \A k \in DOMAIN calls :
        (calls[k].phase = "run" /\ SetupCalls(calls[k].test) # {}) => calls[k].timeout > 0

====
